---- MODULE Spec2Model ----
(***************************************************************************)
(* Volt Protocol: stream marketplace state (VoltProvider), bid lifecycle   *)
(* and the sniper agent (useSniperBot).                                    *)
(*                                                                         *)
(* The repository holds two revisions of the VoltProvider:                 *)
(*   "local"    src/unnamed/part_010       order book kept in the browser  *)
(*   "contract" src/src/context/VoltContext.jsx   order book on the ledger *)
(* The variable `variant` selects the revision a behaviour runs.           *)
(*                                                                         *)
(* Money is counted in units of 10^-6 vUSDC, the precision every stored    *)
(* amount is rounded to (Math.round(x * 1000000) / 1000000), so rounding   *)
(* to six decimals is rounding to an integer.  priceRatio and discount are *)
(* counted in percent (priceRatio 0.9 is 90).                              *)
(***************************************************************************)
EXTENDS Integers, Sequences, FiniteSets, TLC

\* ---------------------------------------------------------------- bounds
MaxTime == 12
MaxListings == 1
MaxBids == 2
MaxAgentListings == 2
MaxInflight == 2
MaxScans == 2
MaxFailed == 3
MaxPollScans == 3
MaxOverflow == 2
MaxBlocks == 3
FaucetEpoch == 1700000000
FaucetFunding == 3000

\* ------------------------------------------------------------- constants
Precision == 1000000
liquidityThreshold == 10000
HistoryLimit == 50
SecondsPerDay == 86400
ScanInterval == 3

\* ------------------------------------------------------------- addresses
Addrs == {"0xA1", "0xB2"}
NoAddr == "null"

\* String.prototype.toLowerCase on the addresses of the model
toLowerCase(a) ==
  CASE a = "0xA1" -> "0xa1"
    [] a = "0xB2" -> "0xb2"
    [] OTHER -> a

\* user.address?.toLowerCase(): undefined for a disconnected user
lowerOpt(a) == IF a = NoAddr THEN "undefined" ELSE toLowerCase(a)

\* address.slice(-1)
lastChar(a) ==
  CASE a = "0xA1" -> "1"
    [] a = "0xB2" -> "2"
    [] OTHER -> "l"

mockArcTrustIDCheck(address) ==
  toLowerCase(lastChar(address)) \in {"0", "2", "4", "6", "8", "a", "b", "c", "d", "e", "f"}

\* ------------------------------------------------------------ arithmetic
Max(a, b) == IF a >= b THEN a ELSE b
Min(a, b) == IF a <= b THEN a ELSE b

\* Math.round(n / d) for d > 0: nearest integer, halves towards +infinity
RoundDiv(n, d) == (2 * n + d) \div (2 * d)

\* smallest integer >= n / d, for d > 0
CeilDiv(n, d) == -((-n) \div d)

\* Array.prototype.find by id: the first element with that id, or none
HasId(s, id) == \E i \in 1..Len(s) : s[i].id = id
FindIdx(s, id) == CHOOSE i \in 1..Len(s) : s[i].id = id /\ \A j \in 1..(i - 1) : s[j].id # id
Find(s, id) == s[FindIdx(s, id)]

\* ---------------------------------------------------------------- ledger
\* Streams held by the ledger contract (read through fetchUserStreams).
ChainStreams ==
  << [id |-> 101, owner |-> "0xA1", totalDeposit |-> 12, startTime |-> 4, duration |-> 8,
      claimedAmount |-> 0, soldAmount |-> 0, isActive |-> TRUE],
     [id |-> 102, owner |-> "0xA1", totalDeposit |-> 10, startTime |-> 9, duration |-> 3456000,
      claimedAmount |-> 0, soldAmount |-> 0, isActive |-> TRUE],
     \* a stream of a third holder who has withdrawn 2 and sold 3 of it
     [id |-> 103, owner |-> "0xC3", totalDeposit |-> 12, startTime |-> 4, duration |-> 8,
      claimedAmount |-> 2, soldAmount |-> 3, isActive |-> TRUE] >>

\* vUSDC held on the ledger by each address when the session starts
InitialChainBalance == [a \in Addrs |-> IF a = "0xA1" THEN 2 ELSE 20]

\* ----------------------------------------------------------------- state
VARIABLES
  variant,          \* which VoltProvider revision runs
  now,              \* Math.floor(Date.now() / 1000)
  user,             \* [address, balanceVUSDC]
  activeStreams,    \* sequence of stream records
  orderBook,        \* sequence of order records
  bids,             \* sequence of bid records
  orderHistory,     \* sequence of [order, status, at]
  tradeHistory,     \* sequence of trade records
  chainOrders,      \* orders held by the ledger contract
  chainBalance,     \* vUSDC held on the ledger by each address (getVUSDCBalance)
  inflight,         \* buyStream calls suspended at their await
  isActive,         \* useSniperBot: isActive
  intervalRef,      \* useSniperBot: intervalRef.current is a live timer
  stats,            \* useSniperBot: stats
  executionHistory, \* useSniperBot: executionHistory
  prefs,            \* useSniperBot: preferences
  mounted,          \* the React tree below the ErrorBoundary is mounted
  faucet,           \* vUSDCFaucet and the vUSDC token it hands out
  last              \* the most recent call and how it ended

vars == << variant, now, user, activeStreams, orderBook, bids, orderHistory, tradeHistory,
           chainOrders, chainBalance, inflight, isActive, intervalRef, stats, executionHistory,
           prefs, mounted, faucet, last >>

marketVars == << user, activeStreams, orderBook, bids, orderHistory, tradeHistory,
                 chainOrders, chainBalance, inflight >>
agentVars == << isActive, intervalRef, stats, executionHistory, prefs, mounted >>

\* ------------------------------------------------------- stream accounting
\* the body of prevStreams.map in updateStreamBalances, at instant t
accrue(stream, t) ==
  LET elapsedTime == Max(0, t - stream.startTime)
      \* flowedAmount = min(elapsedTime * ratePerSecond, totalDeposit), as a fraction fn / fd
      fd == IF stream.duration > 0 THEN stream.duration ELSE 1
      fn == IF stream.duration > 0
            THEN Min(elapsedTime * stream.totalDeposit, stream.totalDeposit * stream.duration)
            ELSE Min(0, stream.totalDeposit)
      rn == Max(0, stream.totalDeposit * fd - fn)
  IN [stream EXCEPT !.flowedAmount = RoundDiv(fn, fd),
                    !.remainingBalance = RoundDiv(rn, fd)]

updateStreamBalances(streams, t) == [i \in 1..Len(streams) |-> accrue(streams[i], t)]

\* an implied value that leaves the price ratio out
impliedValueIgnoresRatio(order, streams) ==
  IF ~HasId(streams, order.streamId) THEN 0
  ELSE RoundDiv(Find(streams, order.streamId).remainingBalance * order.percentage, 100)

\* the implied-value effect: prevOrders.map over the current activeStreams
impliedValueOf(order, streams) ==
  IF ~HasId(streams, order.streamId) THEN 0
  ELSE RoundDiv(Find(streams, order.streamId).remainingBalance * order.percentage * order.priceRatio,
                100 * 100)

recomputeImplied(orders, streams) ==
  [i \in 1..Len(orders) |-> [orders[i] EXCEPT !.impliedValue = impliedValueOf(orders[i], streams)]]

\* streamsData.map in fetchUserStreamsData, for the connected account
mapFetchedStream(sd, account) ==
  [id |-> sd.id, sender |-> account, receiver |-> account,
   totalDeposit |-> sd.totalDeposit, startTime |-> sd.startTime, duration |-> sd.duration,
   claimedAmount |-> sd.claimedAmount, flowedAmount |-> sd.claimedAmount,
   remainingBalance |-> sd.totalDeposit - sd.claimedAmount - sd.soldAmount]

\* useVoltContract.fetchUserStreams: the account's streams that are active
fetchUserStreams(account) ==
  SelectSeq(ChainStreams, LAMBDA sd : sd.owner = account /\ sd.isActive)

\* ------------------------------------------------------------ risk engine
\* calculateStreamRisk; failedTransactions is the number of failed/error
\* entries of sellerHistory, t the instant of the call
\* grades whose upper bounds are exclusive
riskLevelExclusive(riskScore) ==
  IF riskScore < 20 THEN "A"
  ELSE IF riskScore < 40 THEN "B"
  ELSE IF riskScore < 70 THEN "C"
  ELSE "D"

riskLevelOf(riskScore) ==
  IF riskScore <= 20 THEN "A"
  ELSE IF riskScore <= 40 THEN "B"
  ELSE IF riskScore <= 70 THEN "C"
  ELSE "D"

\* recommendedDiscount, in percent (0.02 is 2)
recommendedDiscountOf(riskLevel) ==
  CASE riskLevel = "A" -> 2
    [] riskLevel = "B" -> 5
    [] riskLevel = "C" -> 10
    [] OTHER -> 20

\* the return value for invalid data
riskSentinel == [score |-> 100, riskLevel |-> "D", recommendedDiscount |-> 20, threw |-> FALSE]

\* stream.sender is missing: mockArcTrustIDCheck reads address.slice of undefined
riskTypeError == [score |-> -1, riskLevel |-> "none", recommendedDiscount |-> -1, threw |-> TRUE]

\* Math.max(0, Math.min(100, Math.round(totalRiskPoints)))
clampScore(rounded) == Max(0, Min(100, rounded))

\* a reputation that does not read the seller's history
reputationIgnoresHistory(failedTransactions) == 30

\* normalizedReputation, from the number of failed transactions
reputationOf(failedTransactions) ==
  LET senderReputationScore == IF failedTransactions = 0 THEN 30
                               ELSE IF failedTransactions = 1 THEN 15 ELSE -50
  IN Max(0, Min(30, senderReputationScore))

\* calculateStreamRisk on a stream whose totalDeposit counts `unit` to the vUSDC;
\* a missing (undefined) field and a zero field are the same falsy value
calculateStreamRiskIn(unit, stream, failedTransactions, t) ==
  IF stream.startTime = 0 \/ stream.duration = 0 \/ stream.totalDeposit = 0
  THEN riskSentinel
  ELSE IF stream.sender = "undefined" THEN riskTypeError
  ELSE
    LET elapsed == t - stream.startTime
        d == stream.duration
        \* timeDecayContribution = tn / (7 * d); progress = elapsed / d when d > 0, else 0
        tn == IF d > 0 /\ 10 * elapsed >= 8 * d THEN 40 * 7 * d
              ELSE IF d <= 0 \/ 10 * elapsed <= d THEN 0
              ELSE 40 * (10 * elapsed - d)
        td == IF d > 0 THEN 7 * d ELSE 7
        normalizedReputation == reputationOf(failedTransactions)
        externalSignalScore == IF mockArcTrustIDCheck(stream.sender) THEN 10 ELSE 5
        \* liquidityDepthScore = totalDeposit / liquidityThreshold * 20, capped at 20
        capped == stream.totalDeposit \div unit >= liquidityThreshold
        lden == (liquidityThreshold \div 20) * unit
        k == (40 + 30 + 20 + 10) - normalizedReputation - externalSignalScore
               - (IF capped THEN 20 ELSE 0)
        \* Math.round(k - tn/td - totalDeposit/lden) = k + floor((td - 2 tn - c) / (2 td))
        c == IF capped THEN 0 ELSE CeilDiv(2 * td * stream.totalDeposit, lden)
        rounded == k + ((td - 2 * tn - c) \div (2 * td))
        riskScore == clampScore(rounded)
    IN [score |-> riskScore, riskLevel |-> riskLevelOf(riskScore),
        recommendedDiscount |-> recommendedDiscountOf(riskLevelOf(riskScore)), threw |-> FALSE]

\* the provider's streams count their amounts in units of 1 / Precision
calculateStreamRisk(stream, failedTransactions, t) ==
  calculateStreamRiskIn(Precision, stream, failedTransactions, t)

\* ---------------------------------------------------------------- faucet
\* vUSDCFaucet and its token; amounts are whole vUSDC (10^18 wei each),
\* timestamps are seconds
FAUCET_AMOUNT == 1000
COOLDOWN_PERIOD == 86400

FaucetAddr == "faucet"
FaucetOwner == "0xB2"
Holders == Addrs \cup {FaucetAddr}

\* the faucet some time after deployment, funded by its owner, nobody served yet;
\* granted[a] is the timestamp of the last TokensRequested event of a that no
\* resetCooldown followed, or -1
FaucetDeployed ==
  [timestamp |-> FaucetEpoch, blocks |-> 0, paused |-> FALSE, tokenPaused |-> FALSE,
   lastRequestTime |-> [a \in Addrs |-> 0],
   isBlacklisted |-> [a \in Addrs |-> FALSE],
   balanceOf |-> [h \in Holders |-> IF h = FaucetAddr THEN FaucetFunding ELSE 0],
   granted |-> [a \in Addrs |-> -1]]

\* ------------------------------------------------------------------ init
\* the panel's defaults; orders fetched from the ledger carry riskScore 50 and
\* priceRatio 0.9, so the contract revision is run with a policy they can pass
Preferences(v) ==
  IF v = "local" THEN [maxRisk |-> 40, minDiscount |-> 10, maxDuration |-> 30]
  ELSE [maxRisk |-> 70, minDiscount |-> 5, maxDuration |-> 30]

NoCall == [op |-> "none", arg |-> 0, caller |-> NoAddr, result |-> "none"]

Init ==
  /\ variant \in {"local", "contract"}
  /\ now = 10
  /\ user = [address |-> NoAddr, balanceVUSDC |-> 0]
  /\ activeStreams = << >>
  /\ orderBook = << >>
  /\ bids = << >>
  /\ orderHistory = << >>
  /\ tradeHistory = << >>
  /\ chainOrders = << >>
  /\ chainBalance = InitialChainBalance
  /\ inflight = << >>
  /\ isActive = FALSE
  /\ intervalRef = FALSE
  /\ stats = [totalScans |-> 0, totalMatches |-> 0, totalExecutions |-> 0, lastScanTime |-> 0]
  /\ executionHistory = << >>
  /\ prefs = Preferences(variant)
  /\ mounted = TRUE
  /\ faucet = FaucetDeployed
  /\ last = NoCall

\* a call that throws after it has emptied the bids
ThrowsAfterWrite(op, arg, message) ==
  /\ last' = [op |-> op, arg |-> arg, caller |-> user.address, result |-> message]
  /\ bids' = << >>
  /\ UNCHANGED << variant, faucet, now, user, activeStreams, orderBook, orderHistory, tradeHistory,
                  chainOrders, chainBalance, inflight, agentVars >>

\* a call that throws: nothing but the record of the call changes
Throws(op, arg, message) ==
  /\ last' = [op |-> op, arg |-> arg, caller |-> user.address, result |-> message]
  /\ UNCHANGED << variant, faucet, now, marketVars, agentVars >>

Returns(op, arg) == last' = [op |-> op, arg |-> arg, caller |-> user.address, result |-> "ok"]

\* -------------------------------------------------- wallet, clock, ledger
\* the account-sync effect: user.address follows the wallet's account
SwitchAccount(a) ==
  /\ a # user.address
  /\ user' = [user EXCEPT !.address = a]
  /\ last' = NoCall
  /\ UNCHANGED << variant, faucet, now, activeStreams, orderBook, bids, orderHistory, tradeHistory,
                  chainOrders, chainBalance, inflight, agentVars >>

\* the 1 Hz interval: updateStreamBalances, then the implied-value effect
Tick ==
  /\ now' = now + 1
  /\ activeStreams' = updateStreamBalances(activeStreams, now')
  /\ orderBook' = recomputeImplied(orderBook, activeStreams')
  /\ last' = NoCall
  /\ UNCHANGED << variant, faucet, user, bids, orderHistory, tradeHistory, chainOrders, chainBalance, inflight, agentVars >>

\* the 10 s interval: fetchUserStreamsData, then the implied-value effect
FetchUserStreamsData ==
  /\ user.address # NoAddr
  /\ LET streamsData == fetchUserStreams(user.address)
     IN activeStreams' = [i \in 1..Len(streamsData) |-> mapFetchedStream(streamsData[i], user.address)]
  /\ orderBook' = recomputeImplied(orderBook, activeStreams')
  /\ last' = NoCall
  /\ UNCHANGED << variant, faucet, now, user, bids, orderHistory, tradeHistory, chainOrders, chainBalance, inflight, agentVars >>

\* the 30 s interval: fetchBalance
FetchBalance ==
  /\ user.address # NoAddr
  /\ user' = [user EXCEPT !.balanceVUSDC = chainBalance[user.address]]
  /\ last' = NoCall
  /\ UNCHANGED << variant, faucet, now, activeStreams, orderBook, bids, orderHistory, tradeHistory,
                  chainOrders, chainBalance, inflight, agentVars >>

\* ---------------------------------------------------------------- fresh ids
\* ids are built from Date.now() and Math.random(), one namespace per kind of
\* record (order_, bid_, trade_); the model numbers each kind in order of creation
freshOrderId ==
  1 + (IF variant = "local"
       THEN Cardinality({i \in 1..Len(orderHistory) : orderHistory[i].status = "listed"})
       ELSE Len(chainOrders))
freshBidId == 1 + Len(bids)
freshTradeId == 1 + Len(tradeHistory)

\* ------------------------------------------------------- orders: listing
StreamIds == {101, 102}
PriceRatioInputs == {80, 95}

\* getAllOrders().map in fetchOrdersFromContract
mapChainOrder(o) ==
  [id |-> o.id, streamId |-> o.streamId, seller |-> o.seller, price |-> o.price,
   percentage |-> o.percentage, priceRatio |-> 90, listedAt |-> o.listedAt,
   isActive |-> o.isActive, riskScore |-> 50, riskLevel |-> "B", impliedValue |-> 0]

\* the ledger's getAllOrders: the orders still open
getAllOrders(orders) == SelectSeq(orders, LAMBDA o : o.isActive)

fetchedOrderBook(orders) ==
  LET open == getAllOrders(orders) IN [i \in 1..Len(open) |-> mapChainOrder(open[i])]

\* part_010 listStreamForSale: the order is built and appended locally
ListLocal(streamId, percentage, priceRatio, failedTransactions) ==
  /\ variant = "local"
  /\ IF ~HasId(activeStreams, streamId)
     THEN Throws("listStreamForSale", streamId, "Stream not found")
     ELSE
       LET stream == Find(activeStreams, streamId)
           riskAssessment == calculateStreamRisk(stream, failedTransactions, now)
           newOrder == [id |-> freshOrderId, streamId |-> streamId, seller |-> stream.receiver,
                        percentage |-> percentage, priceRatio |-> priceRatio,
                        riskScore |-> riskAssessment.score, riskLevel |-> riskAssessment.riskLevel,
                        listedAt |-> now, impliedValue |-> 0]
       IN /\ orderBook' = Append(orderBook, newOrder)
          /\ orderHistory' = Append(orderHistory, [order |-> newOrder, status |-> "listed", at |-> now])
          /\ Returns("listStreamForSale", streamId)
          /\ UNCHANGED << variant, faucet, now, user, activeStreams, bids, tradeHistory, chainOrders,
                          chainBalance, inflight, agentVars >>

\* VoltContext.jsx listStreamForSale: createOrder on the ledger, then refetch
ListContract(streamId, percentage, priceRatio) ==
  /\ variant = "contract"
  /\ IF user.address = NoAddr
     THEN Throws("listStreamForSale", streamId, "Wallet not connected")
     ELSE IF ~HasId(activeStreams, streamId)
     THEN Throws("listStreamForSale", streamId, "Stream not found")
     ELSE
       LET stream == Find(activeStreams, streamId)
           \* price = remainingBalance * percentage / 100 * priceRatio, rounded to the unit
           price == RoundDiv(stream.remainingBalance * percentage * priceRatio, 100 * 100)
           created == [id |-> freshOrderId, streamId |-> streamId, seller |-> user.address,
                       price |-> price, percentage |-> percentage, listedAt |-> now,
                       isActive |-> TRUE]
       IN /\ chainOrders' = Append(chainOrders, created)
          /\ orderBook' = fetchedOrderBook(chainOrders')
          /\ Returns("listStreamForSale", streamId)
          /\ UNCHANGED << variant, faucet, now, user, activeStreams, bids, orderHistory, tradeHistory,
                          chainBalance, inflight, agentVars >>

\* the 15 s interval of VoltContext.jsx: fetchOrdersFromContract
FetchOrdersFromContract ==
  /\ variant = "contract"
  /\ user.address # NoAddr
  /\ orderBook' = fetchedOrderBook(chainOrders)
  /\ last' = NoCall
  /\ UNCHANGED << variant, faucet, now, user, activeStreams, bids, orderHistory, tradeHistory,
                  chainOrders, chainBalance, inflight, agentVars >>

\* Array.prototype.filter((o) => o.id !== id)
RemoveId(s, id) == SelectSeq(s, LAMBDA o : o.id # id)

\* part_010 cancelOrder
CancelOrderLocal(orderId) ==
  /\ variant = "local"
  /\ IF ~HasId(orderBook, orderId)
     THEN Throws("cancelOrder", orderId, "Order not found")
     ELSE
       /\ orderHistory' = Append(orderHistory,
              [order |-> Find(orderBook, orderId), status |-> "cancelled", at |-> now])
       /\ orderBook' = RemoveId(orderBook, orderId)
       /\ Returns("cancelOrder", orderId)
       /\ UNCHANGED << variant, faucet, now, user, activeStreams, bids, tradeHistory, chainOrders,
                       chainBalance, inflight, agentVars >>

\* VoltContext.jsx cancelOrder: cancelOrder on the ledger, then refetch.
\* The ledger lets only the seller close an open order.
CancelOrderContract(orderId) ==
  /\ variant = "contract"
  /\ IF user.address = NoAddr
     THEN Throws("cancelOrder", orderId, "Wallet not connected")
     ELSE IF ~(HasId(chainOrders, orderId) /\ Find(chainOrders, orderId).isActive
               /\ Find(chainOrders, orderId).seller = user.address)
     THEN Throws("cancelOrder", orderId, "Transaction failed")
     ELSE
       /\ chainOrders' = [chainOrders EXCEPT ![FindIdx(chainOrders, orderId)].isActive = FALSE]
       /\ orderBook' = fetchedOrderBook(chainOrders')
       /\ Returns("cancelOrder", orderId)
       /\ UNCHANGED << variant, faucet, now, user, activeStreams, bids, orderHistory, tradeHistory,
                       chainBalance, inflight, agentVars >>

\* a trade history that puts the newest record first
prependTrade(history, trade) == << trade >> \o history

\* setTradeHistory((prev) => [...prev, trade])
appendTrade(history, trade) == Append(history, trade)

\* ------------------------------------------------------------------ bids
BidAmounts == {3}
\* what the Discount (%) field of the bid form can hold: numeric strings
DiscountInputs == {"20", "20.0"}

\* the number a string operand of / stands for (ToNumber)
toNumber(s) ==
  CASE s = "20" -> 20
    [] s = "20.0" -> 20
    [] OTHER -> 0

\* parseFloat: the longest numeric prefix
parseFloat(s) ==
  CASE s = "20" -> 20
    [] s = "20.0" -> 20
    [] OTHER -> 0

\* ids a caller can name: those of the bids and orders on record, and 0 for an unknown one
BidIdInputs == {bids[i].id : i \in 1..Len(bids)} \cup {0}
OrderIdInputs == {orderBook[i].id : i \in 1..Len(orderBook)}
                   \cup {bids[i].orderId : i \in 1..Len(bids)} \cup {0}

\* a seller check that lets every caller through
isSellerUnchecked(order, address) == TRUE

\* order.seller.toLowerCase() !== user.address?.toLowerCase()
isSeller(order, address) == toLowerCase(order.seller) = lowerOpt(address)

\* bid.bidder.toLowerCase() !== user.address?.toLowerCase()
isBidder(bid, address) == toLowerCase(bid.bidder) = lowerOpt(address)

\* a status check that lets every status through
isPendingUnchecked(bid) == TRUE

\* bid.status !== 'pending'
isPending(bid) == bid.status = "pending"

\* a status update that reaches every bid on the order of the bid
setBidStatusOfOrder(bs, bidId, status) ==
  [i \in 1..Len(bs) |->
     IF bs[i].orderId = Find(bs, bidId).orderId THEN [bs[i] EXCEPT !.status = status] ELSE bs[i]]

\* a status update that reaches every bid
setBidStatusAll(bs, bidId, status) ==
  [i \in 1..Len(bs) |-> [bs[i] EXCEPT !.status = status]]

\* a status update that drops the bid from the list
setBidStatusDrops(bs, bidId, status) == RemoveId(bs, bidId)

\* prev.map((b) => b.id === bidId ? { ...b, status } : b)
setBidStatus(bs, bidId, status) ==
  [i \in 1..Len(bs) |-> IF bs[i].id = bidId THEN [bs[i] EXCEPT !.status = status] ELSE bs[i]]

\* an order lookup that finds every id
orderUnchecked(orderId) == TRUE

\* orderBook.find((o) => o.id === orderId) found an order
orderListed(orderId) == HasId(orderBook, orderId)

placeBid(orderId, amount, discount) ==
  IF ~orderListed(orderId)
  THEN Throws("placeBid", orderId, "Order not found")
  ELSE IF user.address = NoAddr
  THEN Throws("placeBid", orderId, "Please connect your wallet first")
  ELSE
    LET newBid == [id |-> freshBidId, orderId |-> orderId, bidder |-> user.address,
                   amount |-> amount, discount |-> parseFloat(discount),
                   priceRatio |-> 100 - toNumber(discount),
                   status |-> "pending", createdAt |-> now]
    IN /\ bids' = Append(bids, newBid)
       /\ Returns("placeBid", orderId)
       /\ UNCHANGED << variant, faucet, now, user, activeStreams, orderBook, orderHistory, tradeHistory,
                       chainOrders, chainBalance, inflight, agentVars >>

cancelBid(bidId) ==
  IF ~HasId(bids, bidId)
  THEN Throws("cancelBid", bidId, "Bid not found")
  ELSE IF ~isBidder(Find(bids, bidId), user.address)
  THEN Throws("cancelBid", bidId, "You can only cancel your own bids")
  ELSE IF ~isPending(Find(bids, bidId))
  THEN Throws("cancelBid", bidId, "Only pending bids can be cancelled")
  ELSE
    /\ bids' = setBidStatus(bids, bidId, "cancelled")
    /\ Returns("cancelBid", bidId)
    /\ UNCHANGED << variant, faucet, now, user, activeStreams, orderBook, orderHistory, tradeHistory,
                    chainOrders, chainBalance, inflight, agentVars >>

\* the trade record acceptBid appends; amount is (remainingBalance * percentage) / 100,
\* kept as its numerator amount100
bidTradeEntry(tradeId, order, stream, bid, t) ==
  [id |-> tradeId, orderId |-> order.id, streamId |-> stream.id, seller |-> order.seller,
   buyer |-> bid.bidder, amount100 |-> stream.remainingBalance * order.percentage,
   price |-> bid.amount, percentage |-> order.percentage, executedAt |-> t,
   viaBid |-> TRUE, bidId |-> bid.id]

\* prevStreams.map((s) => s.id === streamId ? { ...s, receiver } : s)
setReceiver(streams, streamId, receiver) ==
  [i \in 1..Len(streams) |->
     IF streams[i].id = streamId THEN [streams[i] EXCEPT !.receiver = receiver] ELSE streams[i]]

\* what acceptBid does to the order history: part_010 appends the sold entry,
\* VoltContext.jsx has no such statement
acceptBidHistory(v, history, order, t) ==
  IF v = "local" THEN Append(history, [order |-> order, status |-> "sold", at |-> t])
  ELSE history

\* setUser((prev) => ({ ...prev, balanceVUSDC: prev.balanceVUSDC - bid.amount }))
acceptBidDebit(u, bid) == [u EXCEPT !.balanceVUSDC = u.balanceVUSDC - bid.amount]

acceptBid(bidId) ==
  IF ~HasId(bids, bidId)
  THEN Throws("acceptBid", bidId, "Bid not found")
  ELSE IF ~HasId(orderBook, Find(bids, bidId).orderId)
  THEN Throws("acceptBid", bidId, "Order not found")
  ELSE IF ~isSeller(Find(orderBook, Find(bids, bidId).orderId), user.address)
  THEN Throws("acceptBid", bidId, "Only the seller can accept bids")
  ELSE IF ~isPending(Find(bids, bidId))
  THEN Throws("acceptBid", bidId, "Only pending bids can be accepted")
  ELSE IF ~HasId(activeStreams, Find(orderBook, Find(bids, bidId).orderId).streamId)
  THEN Throws("acceptBid", bidId, "Stream not found")
  ELSE
    LET bid == Find(bids, bidId)
        order == Find(orderBook, bid.orderId)
        stream == Find(activeStreams, order.streamId)
    IN /\ bids' = setBidStatus(bids, bidId, "accepted")
       /\ activeStreams' = setReceiver(activeStreams, order.streamId, bid.bidder)
       \* the order is filtered out; the implied-value effect then follows the new activeStreams
       /\ orderBook' = recomputeImplied(RemoveId(orderBook, order.id), activeStreams')
       /\ user' = acceptBidDebit(user, bid)
       /\ tradeHistory' = appendTrade(tradeHistory, bidTradeEntry(freshTradeId, order, stream, bid, now))
       /\ orderHistory' = acceptBidHistory(variant, orderHistory, order, now)
       /\ Returns("acceptBid", bidId)
       /\ UNCHANGED << variant, faucet, now, chainOrders, chainBalance, inflight, agentVars >>

rejectBid(bidId) ==
  IF ~HasId(bids, bidId)
  THEN Throws("rejectBid", bidId, "Bid not found")
  ELSE IF ~HasId(orderBook, Find(bids, bidId).orderId)
  THEN Throws("rejectBid", bidId, "Order not found")
  ELSE IF ~isSeller(Find(orderBook, Find(bids, bidId).orderId), user.address)
  THEN Throws("rejectBid", bidId, "Only the seller can reject bids")
  ELSE IF ~isPending(Find(bids, bidId))
  THEN Throws("rejectBid", bidId, "Only pending bids can be rejected")
  ELSE
    /\ bids' = setBidStatus(bids, bidId, "rejected")
    /\ Returns("rejectBid", bidId)
    /\ UNCHANGED << variant, faucet, now, user, activeStreams, orderBook, orderHistory, tradeHistory,
                    chainOrders, chainBalance, inflight, agentVars >>

\* ------------------------------------------------------------- purchases
\* part_010 buyStream up to its await: the message of the rejection, or "pending"
buyStreamCheckLocal(orderId) ==
  IF user.address = NoAddr THEN "Please connect your wallet first"
  ELSE IF ~HasId(orderBook, orderId) THEN "Order not found"
  ELSE IF ~HasId(activeStreams, Find(orderBook, orderId).streamId) THEN "Stream not found"
  ELSE IF Find(orderBook, orderId).impliedValue <= 0 THEN "Invalid purchase price"
  ELSE IF user.balanceVUSDC < Find(orderBook, orderId).impliedValue THEN "Insufficient vUSDC balance"
  ELSE "pending"

\* VoltContext.jsx buyStream up to its first await
buyStreamCheckContract(orderId) ==
  IF user.address = NoAddr THEN "Wallet not connected"
  ELSE IF ~HasId(orderBook, orderId) THEN "Order not found"
  ELSE "pending"

buyStreamCheck(orderId) ==
  IF variant = "local" THEN buyStreamCheckLocal(orderId) ELSE buyStreamCheckContract(orderId)

\* the values a suspended buyStream call holds in its closure
buyStreamClosure(orderId, by) ==
  LET order == Find(orderBook, orderId) IN
  IF variant = "local"
  THEN [orderId |-> orderId, order |-> order, buyer |-> user.address,
        purchasePrice |-> order.impliedValue,
        orderValue100 |-> Find(activeStreams, order.streamId).remainingBalance * order.percentage, by |-> by]
  ELSE [orderId |-> orderId, order |-> order, buyer |-> user.address,
        purchasePrice |-> order.price, orderValue100 |-> 0, by |-> by]

\* handleBuyNow: the user calls buyStream
BuyStream(orderId) ==
  IF buyStreamCheck(orderId) # "pending"
  THEN Throws("buyStream", orderId, buyStreamCheck(orderId))
  ELSE
    /\ inflight' = Append(inflight, buyStreamClosure(orderId, "user"))
    /\ last' = [op |-> "buyStream", arg |-> orderId, caller |-> user.address, result |-> "pending"]
    /\ UNCHANGED << variant, faucet, now, user, activeStreams, orderBook, bids, orderHistory, tradeHistory,
                    chainOrders, chainBalance, agentVars >>

buyTradeEntry(tradeId, e, t) ==
  [id |-> tradeId, orderId |-> e.orderId, streamId |-> e.order.streamId, seller |-> e.order.seller,
   buyer |-> e.buyer, amount100 |-> e.orderValue100, price |-> e.purchasePrice,
   percentage |-> e.order.percentage, executedAt |-> t, viaBid |-> FALSE, bidId |-> 0]

\* part_010 buyStream after its await (setTimeout 2000): the six state updates
SettleLocal ==
  /\ variant = "local"
  /\ inflight # << >>
  /\ LET e == Head(inflight) IN
       /\ user' = [user EXCEPT !.balanceVUSDC = user.balanceVUSDC - e.purchasePrice]
       /\ activeStreams' = setReceiver(activeStreams, e.order.streamId, e.buyer)
       /\ orderBook' = recomputeImplied(RemoveId(orderBook, e.orderId), activeStreams')
       /\ tradeHistory' = appendTrade(tradeHistory, buyTradeEntry(freshTradeId, e, now))
       /\ orderHistory' = Append(orderHistory, [order |-> e.order, status |-> "sold", at |-> now])
       /\ last' = [op |-> "buyStream", arg |-> e.orderId, caller |-> e.buyer, result |-> "ok"]
  /\ inflight' = Tail(inflight)
  /\ UNCHANGED << variant, faucet, now, bids, chainOrders, chainBalance, agentVars >>

\* the ledger's buyOrder: open orders only, paid from the buyer's balance
ledgerBuyResult(e) ==
  IF chainBalance[e.buyer] < e.purchasePrice THEN "Insufficient vUSDC balance"
  ELSE IF ~(HasId(chainOrders, e.orderId) /\ Find(chainOrders, e.orderId).isActive) THEN "Transaction failed"
  ELSE "ok"

\* VoltContext.jsx buyStream after its awaits: balance check, buyOrder, refetches
SettleContract ==
  /\ variant = "contract"
  /\ inflight # << >>
  /\ inflight' = Tail(inflight)
  /\ LET e == Head(inflight) IN
       /\ last' = [op |-> "buyStream", arg |-> e.orderId, caller |-> e.buyer, result |-> ledgerBuyResult(e)]
       /\ IF ledgerBuyResult(e) # "ok"
          THEN UNCHANGED << user, activeStreams, orderBook, chainOrders, chainBalance >>
          ELSE
            LET seller == Find(chainOrders, e.orderId).seller
                streamsData == fetchUserStreams(e.buyer)
            IN /\ chainOrders' = [chainOrders EXCEPT ![FindIdx(chainOrders, e.orderId)].isActive = FALSE]
               /\ chainBalance' = [a \in Addrs |->
                      chainBalance[a] - (IF a = e.buyer THEN e.purchasePrice ELSE 0)
                                      + (IF a = seller THEN e.purchasePrice ELSE 0)]
               /\ activeStreams' =
                    IF Len(streamsData) > 0
                    THEN [i \in 1..Len(streamsData) |-> mapFetchedStream(streamsData[i], e.buyer)]
                    ELSE activeStreams
               /\ orderBook' =
                    IF Len(streamsData) > 0
                    THEN recomputeImplied(fetchedOrderBook(chainOrders'), activeStreams')
                    ELSE fetchedOrderBook(chainOrders')
               /\ user' = [user EXCEPT !.balanceVUSDC = chainBalance'[e.buyer]]
  /\ UNCHANGED << variant, faucet, now, bids, orderHistory, tradeHistory, agentVars >>

\* ----------------------------------------------------------------- agent
\* calculateDiscount: (1 - priceRatio) * 100 in IEEE double arithmetic, as the
\* nearest whole percent and the sign of the rounding error
\* (0.9 gives 9.999999999999998, 0.95 gives 5.000000000000004)
calculateDiscount(priceRatio) ==
  [whole |-> 100 - priceRatio,
   err |-> CASE priceRatio \in {80, 90} -> -1
             [] priceRatio \in {85, 95} -> 1
             [] OTHER -> 0]

\* discount < minDiscount, for a whole minDiscount
discountBelow(discount, minDiscount) ==
  discount.whole < minDiscount \/ (discount.whole = minDiscount /\ discount.err < 0)

\* a duration check that lets every duration through
durationUnchecked(stream, maxDuration) == FALSE

\* getStreamDurationDays(stream) > maxDuration, with duration / 86400 days
durationAbove(stream, maxDuration) ==
  stream.duration # 0 /\ stream.duration > maxDuration * SecondsPerDay

\* useSniperBot.js never declares `checks`; the statement `checks.x = false`
\* that opens every failing branch of orderMatchesCriteria raises a ReferenceError
checksDeclared == FALSE

failedCheck == IF checksDeclared THEN "false" ELSE "ReferenceError"

orderMatchesCriteria(order, stream) ==
  IF order.riskScore > prefs.maxRisk THEN failedCheck
  ELSE IF discountBelow(calculateDiscount(order.priceRatio), prefs.minDiscount) THEN failedCheck
  ELSE IF durationAbove(stream, prefs.maxDuration) THEN failedCheck
  ELSE IF user.balanceVUSDC < order.impliedValue THEN failedCheck
  ELSE IF user.address # NoAddr /\ toLowerCase(order.seller) = toLowerCase(user.address) THEN failedCheck
  ELSE "true"

EmptyRun == [scanned |-> << >>, dispatched |-> << >>, threw |-> FALSE]

\* orderBook.forEach in scanOrderBook, from the i-th order on; an exception ends it
RECURSIVE scanFrom(_, _)
scanFrom(i, run) ==
  IF i > Len(orderBook) \/ run.threw THEN run
  ELSE
    LET order == orderBook[i]
        seen == [run EXCEPT !.scanned = Append(@, order.id)]
    IN IF ~HasId(activeStreams, order.streamId) THEN scanFrom(i + 1, seen)
       ELSE
         LET verdict == orderMatchesCriteria(order, Find(activeStreams, order.streamId))
         IN IF verdict = "true"
            THEN scanFrom(i + 1, [seen EXCEPT !.dispatched = Append(@, order.id)])
            ELSE IF verdict = "false" THEN scanFrom(i + 1, seen)
            ELSE [seen EXCEPT !.threw = TRUE]

\* the execution entry executeTrade records
executionEntry(order, t) ==
  [orderId |-> order.id, streamId |-> order.streamId, executedAt |-> t,
   price |-> order.impliedValue, riskScore |-> order.riskScore,
   discount |-> calculateDiscount(order.priceRatio)]

\* a history that is never cut
pushUnbounded(history, execution) == << execution >> \o history

\* [execution, ...prev].slice(0, 50)
pushExecution(history, execution) ==
  LET all == << execution >> \o history
  IN SubSeq(all, 1, Min(Len(all), HistoryLimit))

RECURSIVE recordExecutions(_, _)
recordExecutions(history, orderIds) ==
  IF orderIds = << >> THEN history
  ELSE recordExecutions(pushExecution(history, executionEntry(Find(orderBook, Head(orderIds)), now)),
                        Tail(orderIds))

\* the buyStream calls of one scan that reach their await
RECURSIVE dispatchedClosures(_)
dispatchedClosures(orderIds) ==
  IF orderIds = << >> THEN << >>
  ELSE (IF buyStreamCheck(Head(orderIds)) = "pending"
        THEN << buyStreamClosure(Head(orderIds), "agent") >> ELSE << >>)
       \o dispatchedClosures(Tail(orderIds))

\* a start that begins a run with fresh counters
startResetsStats ==
  /\ ~isActive
  /\ isActive' = TRUE
  /\ intervalRef' = TRUE
  /\ stats' = [totalScans |-> 0, totalMatches |-> 0, totalExecutions |-> 0, lastScanTime |-> 0]
  /\ last' = [op |-> "start", arg |-> 0, caller |-> NoAddr, result |-> "ok"]
  /\ UNCHANGED << variant, faucet, now, marketVars, executionHistory, prefs, mounted >>

start ==
  /\ ~isActive
  /\ isActive' = TRUE
  /\ intervalRef' = TRUE
  /\ last' = [op |-> "start", arg |-> 0, caller |-> NoAddr, result |-> "ok"]
  /\ UNCHANGED << variant, faucet, now, marketVars, stats, executionHistory, prefs, mounted >>

\* a stop that leaves the timer of the polling effect running
stopLeavesInterval == FALSE

\* setIsActive(false); the effect's cleanup clears the timer before the event ends
stopClearsInterval == TRUE

stop ==
  /\ isActive
  /\ isActive' = FALSE
  /\ intervalRef' = (IF stopClearsInterval THEN FALSE ELSE intervalRef)
  /\ last' = NoCall
  /\ UNCHANGED << variant, faucet, now, marketVars, stats, executionHistory, prefs, mounted >>

\* scanOrderBook runs when the polling effect runs and when its timer fires
scanEnabled(trigger) ==
  IF trigger = "effect" THEN isActive ELSE intervalRef

\* One run of scanOrderBook.  Called by the effect, an exception reaches
\* the ErrorBoundary above VoltProvider, which unmounts the tree; called by the
\* timer, it ends the callback only.
scanOrderBook(trigger) ==
  /\ scanEnabled(trigger)
  /\ LET run == scanFrom(1, EmptyRun)
         calls == dispatchedClosures(run.dispatched)
     IN /\ inflight' = inflight \o calls
        /\ stats' = [totalScans |-> stats.totalScans + 1,
                     totalMatches |-> stats.totalMatches + Len(run.dispatched),
                     totalExecutions |-> stats.totalExecutions + Len(run.dispatched),
                     lastScanTime |-> now]
        /\ executionHistory' = recordExecutions(executionHistory, run.dispatched)
        /\ last' = [op |-> "scanOrderBook", arg |-> 0, caller |-> user.address,
                     result |-> IF run.threw THEN "ReferenceError" ELSE "ok",
                     scanned |-> run.scanned, dispatched |-> run.dispatched]
        /\ mounted' = ~(run.threw /\ trigger = "effect")
  /\ UNCHANGED << variant, faucet, now, user, activeStreams, orderBook, bids, orderHistory, tradeHistory,
                  chainOrders, chainBalance, isActive, intervalRef, prefs >>

\* connectWallet: the address, then the balance, then the account's streams
connectWallet(a) ==
  /\ user.address = NoAddr
  /\ user' = [address |-> a, balanceVUSDC |-> chainBalance[a]]
  /\ LET streamsData == fetchUserStreams(a)
     IN activeStreams' = [i \in 1..Len(streamsData) |-> mapFetchedStream(streamsData[i], a)]
  /\ orderBook' = recomputeImplied(IF variant = "contract" THEN fetchedOrderBook(chainOrders) ELSE orderBook,
                                   activeStreams')
  /\ last' = NoCall
  /\ UNCHANGED << variant, faucet, now, bids, orderHistory, tradeHistory,
                  chainOrders, chainBalance, inflight, agentVars >>

disconnectWallet ==
  /\ user.address # NoAddr
  /\ user' = [user EXCEPT !.address = NoAddr]
  /\ last' = NoCall
  /\ UNCHANGED << variant, faucet, now, activeStreams, orderBook, bids, orderHistory, tradeHistory,
                  chainOrders, chainBalance, inflight, agentVars >>

\* ------------------------------------------------------------------ next
\* the marketplace without the agent: listings and the bid lifecycle
MarketNext ==
  \/ \E a \in Addrs \cup {NoAddr} : SwitchAccount(a)
  \/ FetchUserStreamsData
  \/ FetchBalance
  \/ FetchOrdersFromContract
  \/ \E sid \in StreamIds : freshOrderId <= MaxListings /\ ListLocal(sid, 100, 80, 0)
  \/ \E sid \in StreamIds : freshOrderId <= MaxListings /\ ListContract(sid, 100, 80)
  \/ \E id \in OrderIdInputs, amount \in BidAmounts, discount \in DiscountInputs :
       Len(bids) < MaxBids /\ placeBid(id, amount, discount)
  \/ \E id \in BidIdInputs : cancelBid(id)
  \/ \E id \in BidIdInputs : acceptBid(id)
  \/ \E id \in BidIdInputs : rejectBid(id)

MarketSpec == Init /\ [][MarketNext]_vars

\* the agent and the purchases, with listings but without bids
AgentNext ==
  \/ mounted /\ \E a \in Addrs \cup {NoAddr} : SwitchAccount(a)
  \/ mounted /\ FetchUserStreamsData
  \/ mounted /\ FetchBalance
  \/ mounted /\ \E sid \in StreamIds, pr \in PriceRatioInputs :
       freshOrderId <= MaxAgentListings /\ ListLocal(sid, 100, pr, 0)
  \/ mounted /\ \E sid \in StreamIds, pr \in PriceRatioInputs :
       freshOrderId <= MaxAgentListings /\ ListContract(sid, 100, pr)
  \/ mounted /\ SettleLocal
  \/ mounted /\ SettleContract
  \/ mounted /\ start
  \/ mounted /\ stop
  \/ mounted /\ \E trigger \in {"effect", "interval"} :
       /\ stats.totalScans < MaxScans
       /\ scanOrderBook(trigger)
       /\ Len(inflight') <= MaxInflight

AgentSpec == Init /\ [][AgentNext]_vars

\* every operation of the provider and of the agent
Next ==
  \/ MarketNext
  \/ AgentNext
  \/ mounted /\ now < MaxTime /\ Tick
  \/ mounted /\ \E a \in Addrs : connectWallet(a)
  \/ mounted /\ disconnectWallet
  \/ mounted /\ \E id \in OrderIdInputs : CancelOrderLocal(id)
  \/ mounted /\ \E id \in OrderIdInputs : CancelOrderContract(id)
  \/ mounted /\ \E id \in OrderIdInputs : Len(inflight) < MaxInflight /\ BuyStream(id)

Spec == Init /\ [][Next]_vars

\* the clock, the ledger refetches and the listings, without bids or agent
ClockNext ==
  \/ \E a \in Addrs \cup {NoAddr} : SwitchAccount(a)
  \/ FetchUserStreamsData
  \/ now < MaxTime /\ Tick
  \/ FetchOrdersFromContract
  \/ \E sid \in StreamIds, pr \in PriceRatioInputs :
       freshOrderId <= MaxListings /\ ListLocal(sid, 100, pr, 0)
  \/ \E sid \in StreamIds, pr \in PriceRatioInputs :
       freshOrderId <= MaxListings /\ ListContract(sid, 100, pr)
  \/ \E id \in OrderIdInputs : CancelOrderLocal(id)
  \/ \E id \in OrderIdInputs : CancelOrderContract(id)

ClockSpec == Init /\ [][ClockNext]_vars

\* ------------------------------------------------- the polling effect alone
\* The polling effect of useSniperBot is due when one of its dependencies
\* (isActive, orderBook, activeStreams, orderMatchesCriteria, executeTrade) has a
\* new identity: every step of PollNext but a scan gives it one.  React runs a
\* due effect before the next timer or event, and each run clears the 3 s timer
\* and sets it anew.
effectDue == isActive /\ mounted /\ last.op # "scanOrderBook"

PollNext ==
  \/ ~effectDue /\ \E a \in Addrs \cup {NoAddr} : SwitchAccount(a)
  \/ ~effectDue /\ FetchUserStreamsData
  \/ ~effectDue /\ now < MaxTime /\ Tick
  \/ ~effectDue /\ start
  \/ ~effectDue /\ stop
  \/ effectDue /\ stats.totalScans < MaxPollScans /\ scanOrderBook("effect")

PollSpec == Init /\ [][PollNext]_vars

\* ---------------------------------------------- the execution history alone
\* the order handed to the k-th call of executeTrade
tradedOrder(orderId) ==
  [id |-> orderId, streamId |-> 101, impliedValue |-> 10, riskScore |-> 30, priceRatio |-> 80]

\* the history after n calls of executeTrade, the k-th of them at instant k
RECURSIVE historyAfter(_)
historyAfter(n) ==
  IF n = 0 THEN << >>
  ELSE pushExecution(historyAfter(n - 1), executionEntry(tradedOrder(1), n))

HistoryInit ==
  /\ variant = "local"
  /\ now = 10
  /\ user = [address |-> NoAddr, balanceVUSDC |-> 0]
  /\ activeStreams = << >>
  /\ orderBook = << >>
  /\ bids = << >>
  /\ orderHistory = << >>
  /\ tradeHistory = << >>
  /\ chainOrders = << >>
  /\ chainBalance = InitialChainBalance
  /\ inflight = << >>
  /\ isActive = TRUE
  /\ intervalRef = TRUE
  /\ \E n \in (HistoryLimit - 2)..HistoryLimit :
       /\ stats = [totalScans |-> n, totalMatches |-> n, totalExecutions |-> n, lastScanTime |-> n]
       /\ executionHistory = historyAfter(n)
  /\ prefs = Preferences(variant)
  /\ mounted = TRUE
  /\ faucet = FaucetDeployed
  /\ last = NoCall

\* executeTrade(order) at instant totalExecutions + 1: buyStream is called and
\* not awaited, the execution is recorded whatever becomes of the purchase
executeTrade(order) ==
  /\ inflight' = inflight \o dispatchedClosures(<< order.id >>)
  /\ executionHistory' = pushExecution(executionHistory, executionEntry(order, stats.totalExecutions + 1))
  /\ stats' = [stats EXCEPT !.totalExecutions = @ + 1]
  /\ last' = [op |-> "executeTrade", arg |-> order.id, caller |-> user.address, result |-> "ok"]
  /\ UNCHANGED << variant, faucet, now, user, activeStreams, orderBook, bids, orderHistory, tradeHistory,
                  chainOrders, chainBalance, isActive, intervalRef, prefs, mounted >>

HistoryNext ==
  \E orderId \in 1..3 :
    /\ stats.totalExecutions < HistoryLimit + MaxOverflow
    /\ executeTrade(tradedOrder(orderId))

HistorySpec == HistoryInit /\ [][HistoryNext]_vars

\* ------------------------------------------------ the stream snapshots alone
\* the stream set of a session that connects, refetches and ticks
SnapshotNext ==
  \/ \E a \in Addrs \cup {"0xC3", NoAddr} : SwitchAccount(a)
  \/ FetchUserStreamsData
  \/ now < MaxTime /\ Tick

SnapshotSpec == Init /\ [][SnapshotNext]_vars

\* ---------------------------------------------------- stream accounting alone
\* the accounting as a function of the stream and the instant: one stream drawn
\* from StreamInputs, the 1 Hz update and the live price of the order rows
StreamInputs ==
  [id : {101}, sender : {"0xA1"}, receiver : {"0xA1"}, totalDeposit : {0, 5, 12},
   startTime : {4, 9, 12}, duration : {-3, 0, 8, 20}, claimedAmount : {0},
   flowedAmount : {0}, remainingBalance : {0}]

DiscountRateInputs == {0, 10}

\* useLiveStreamPrice at instant t: remainingBalance and currentPrice as the
\* fractions remaining / den and price / (100 * den), discountRate in percent
useLiveStreamPrice(stream, discountRate, t) ==
  IF stream.totalDeposit = 0 \/ stream.duration = 0
  THEN [remaining |-> 0, price |-> 0, den |-> 1, timeRemaining |-> 0]
  ELSE
    LET elapsed == Max(0, t - stream.startTime)
        totalDuration == stream.duration
        den == IF totalDuration > 0 THEN totalDuration ELSE 1
        flowed == IF totalDuration > 0
                  THEN Min(elapsed * stream.totalDeposit, stream.totalDeposit * den)
                  ELSE Min(0, stream.totalDeposit)
        remaining == Max(0, stream.totalDeposit * den - flowed)
    IN [remaining |-> remaining, price |-> remaining * (100 - discountRate), den |-> den,
        timeRemaining |-> Max(0, totalDuration - elapsed)]

AccountingInit ==
  /\ variant = "local"
  /\ now = 10
  /\ user = [address |-> "0xA1", balanceVUSDC |-> 0]
  /\ \E stream \in StreamInputs : activeStreams = updateStreamBalances(<< stream >>, now)
  /\ orderBook = << >>
  /\ bids = << >>
  /\ orderHistory = << >>
  /\ tradeHistory = << >>
  /\ chainOrders = << >>
  /\ chainBalance = InitialChainBalance
  /\ inflight = << >>
  /\ isActive = FALSE
  /\ intervalRef = FALSE
  /\ stats = [totalScans |-> 0, totalMatches |-> 0, totalExecutions |-> 0, lastScanTime |-> 0]
  /\ executionHistory = << >>
  /\ prefs = Preferences(variant)
  /\ mounted = TRUE
  /\ faucet = FaucetDeployed
  /\ last = NoCall

\* calculatePrice of useLiveStreamPrice for the row of one stream
LivePrice(streamId, discountRate) ==
  /\ HasId(activeStreams, streamId)
  /\ last' = [op |-> "useLiveStreamPrice", arg |-> streamId, caller |-> user.address,
              result |-> "ok",
              live |-> useLiveStreamPrice(Find(activeStreams, streamId), discountRate, now)]
  /\ UNCHANGED << variant, faucet, now, marketVars, agentVars >>

AccountingNext ==
  \/ now < MaxTime /\ Tick
  \/ \E streamId \in StreamIds, discountRate \in DiscountRateInputs : LivePrice(streamId, discountRate)

AccountingSpec == AccountingInit /\ [][AccountingNext]_vars

\* ------------------------------------------------------ risk scoring alone
\* calculateStreamRisk as a function of its arguments: the stream is drawn from
\* RiskStreams (amounts in whole vUSDC), the history from 0..MaxFailed failures
RiskStreams ==
  [startTime : {0, 2, 9, 12}, duration : {-5, 0, 4, 10, 100},
   totalDeposit : {-20000, 0, 1, 2500, 10000, 20000}, sender : Addrs \cup {"undefined"}]

RiskInit ==
  /\ variant = "local"
  /\ now = 10
  /\ user = [address |-> NoAddr, balanceVUSDC |-> 0]
  /\ activeStreams = << >>
  /\ orderBook = << >>
  /\ bids = << >>
  /\ orderHistory = << >>
  /\ tradeHistory = << >>
  /\ chainOrders = << >>
  /\ chainBalance = InitialChainBalance
  /\ inflight = << >>
  /\ isActive = FALSE
  /\ intervalRef = FALSE
  /\ stats = [totalScans |-> 0, totalMatches |-> 0, totalExecutions |-> 0, lastScanTime |-> 0]
  /\ executionHistory = << >>
  /\ prefs = Preferences(variant)
  /\ mounted = TRUE
  /\ faucet = FaucetDeployed
  /\ \E stream \in RiskStreams :
       last = [op |-> "riskInput", arg |-> 0, caller |-> NoAddr, result |-> "none",
               stream |-> stream, assessment |-> riskSentinel]

\* one call calculateStreamRisk(stream, sellerHistory)
ScoreRisk(failedTransactions) ==
  /\ last.op \in {"riskInput", "calculateStreamRisk"}
  /\ LET assessment == calculateStreamRiskIn(1, last.stream, failedTransactions, now)
     IN last' = [op |-> "calculateStreamRisk", arg |-> failedTransactions, caller |-> NoAddr,
                 result |-> IF assessment.threw THEN "TypeError" ELSE "ok",
                 stream |-> last.stream, assessment |-> assessment]
  /\ UNCHANGED << variant, faucet, now, marketVars, agentVars >>

RiskNext == \E failedTransactions \in 0..MaxFailed : ScoreRisk(failedTransactions)

RiskSpec == RiskInit /\ [][RiskNext]_vars

\* ------------------------------------------------------- the faucet alone
appVars == << variant, now, marketVars, agentVars >>

\* ERC20 transfer of the token
transfer(balanceOf, from, to, amount) ==
  IF from = to THEN balanceOf
  ELSE [balanceOf EXCEPT ![from] = @ - amount, ![to] = @ + amount]

cooldownUnchecked(a) == TRUE

\* block.timestamp >= lastRequestTime[msg.sender] + COOLDOWN_PERIOD
cooldownExpired(a) == faucet.timestamp >= faucet.lastRequestTime[a] + COOLDOWN_PERIOD

\* the require that reverts requestTokens for msg.sender = a, or "ok"
requestTokensRevert(a) ==
  IF faucet.paused THEN "Faucet is paused"
  ELSE IF faucet.isBlacklisted[a] THEN "Address is blacklisted"
  ELSE IF ~cooldownExpired(a) THEN "Cooldown period not expired"
  ELSE IF faucet.balanceOf[FaucetAddr] < FAUCET_AMOUNT THEN "Faucet empty, please try later"
  ELSE IF faucet.tokenPaused THEN "EnforcedPause"
  ELSE "ok"

\* requestTokens() sent by a; a reverted call changes nothing
requestTokens(a) ==
  /\ last' = [op |-> "requestTokens", arg |-> 0, caller |-> a, result |-> requestTokensRevert(a),
              prior |-> faucet.granted[a]]
  /\ faucet' = IF requestTokensRevert(a) # "ok" THEN faucet
               ELSE [faucet EXCEPT !.lastRequestTime[a] = faucet.timestamp,
                                   !.balanceOf = transfer(@, FaucetAddr, a, FAUCET_AMOUNT),
                                   !.granted[a] = faucet.timestamp]
  /\ UNCHANGED appVars

\* the onlyOwner modifier
onlyOwner(caller) == IF caller = FaucetOwner THEN "ok" ELSE "OwnableUnauthorizedAccount"

\* resetCooldown(u) sent by caller
resetCooldown(caller, u) ==
  /\ last' = [op |-> "resetCooldown", arg |-> 0, caller |-> caller, result |-> onlyOwner(caller)]
  /\ faucet' = IF onlyOwner(caller) # "ok" THEN faucet
               ELSE [faucet EXCEPT !.lastRequestTime[u] = 0, !.granted[u] = -1]
  /\ UNCHANGED appVars

\* setPaused(_paused) sent by the owner
setPaused(paused) ==
  /\ faucet.paused # paused
  /\ last' = [op |-> "setPaused", arg |-> 0, caller |-> FaucetOwner, result |-> "ok"]
  /\ faucet' = [faucet EXCEPT !.paused = paused]
  /\ UNCHANGED appVars

\* setBlacklist(u, blacklisted) sent by the owner
setBlacklist(u, blacklisted) ==
  /\ faucet.isBlacklisted[u] # blacklisted
  /\ last' = [op |-> "setBlacklist", arg |-> 0, caller |-> FaucetOwner, result |-> "ok"]
  /\ faucet' = [faucet EXCEPT !.isBlacklisted[u] = blacklisted]
  /\ UNCHANGED appVars

\* withdrawTokens(amount) sent by the owner
withdrawTokens(amount) ==
  /\ last' = [op |-> "withdrawTokens", arg |-> amount, caller |-> FaucetOwner,
              result |-> IF faucet.balanceOf[FaucetAddr] < amount THEN "Insufficient balance"
                         ELSE IF faucet.tokenPaused THEN "EnforcedPause" ELSE "ok"]
  /\ faucet' = IF last'.result # "ok" THEN faucet
               ELSE [faucet EXCEPT !.balanceOf = transfer(@, FaucetAddr, FaucetOwner, amount)]
  /\ UNCHANGED appVars

\* pause() and unpause() of the token, sent by its owner
pauseToken(paused) ==
  /\ faucet.tokenPaused # paused
  /\ last' = [op |-> IF paused THEN "pause" ELSE "unpause", arg |-> 0, caller |-> FaucetOwner,
              result |-> "ok"]
  /\ faucet' = [faucet EXCEPT !.tokenPaused = paused]
  /\ UNCHANGED appVars

\* the next block is mined gap seconds after this one
BlockGaps == {1, COOLDOWN_PERIOD - 1}

MineBlock(gap) ==
  /\ faucet.blocks < MaxBlocks
  /\ faucet' = [faucet EXCEPT !.timestamp = @ + gap, !.blocks = @ + 1]
  /\ last' = NoCall
  /\ UNCHANGED appVars

FaucetNext ==
  \/ \E a \in Addrs : requestTokens(a)
  \/ \E caller \in Addrs, u \in Addrs : resetCooldown(caller, u)
  \/ \E paused \in BOOLEAN : setPaused(paused)
  \/ \E blacklisted \in BOOLEAN : setBlacklist("0xA1", blacklisted)
  \/ withdrawTokens(FAUCET_AMOUNT)
  \/ \E paused \in BOOLEAN : pauseToken(paused)
  \/ \E gap \in BlockGaps : MineBlock(gap)

FaucetSpec == Init /\ [][FaucetNext]_vars

\* ------------------------------------------------------ the order listing
\* a filter that lets every order through
filterNothing(orders, streams) == orders

\* orders whose stream is in the stream set with remainingBalance > 0
filterActiveOrders(orders, streams) ==
  SelectSeq(orders, LAMBDA order :
    HasId(streams, order.streamId) /\ Find(streams, order.streamId).remainingBalance > 0)

\* [...filtered].sort by impliedValue, highest first (sortBy 'price'); the sort is stable
RECURSIVE insertByPrice(_, _)
insertByPrice(sorted, order) ==
  IF sorted = << >> THEN << order >>
  ELSE IF Head(sorted).impliedValue >= order.impliedValue
       THEN << Head(sorted) >> \o insertByPrice(Tail(sorted), order)
       ELSE << order >> \o sorted

RECURSIVE sortByPrice(_)
sortByPrice(orders) ==
  IF orders = << >> THEN << >>
  ELSE insertByPrice(sortByPrice(SubSeq(orders, 1, Len(orders) - 1)), orders[Len(orders)])

RiskFilters == {"all", "A", "B", "C", "D"}

\* activeOrders of the OrderBook component with an empty search box
activeOrders(riskFilter) ==
  sortByPrice(SelectSeq(filterActiveOrders(orderBook, activeStreams),
                        LAMBDA order : riskFilter = "all" \/ order.riskLevel = riskFilter))

\* ------------------------------------------------------------ error kinds
\* the kind (section 7 of the specification) of the message a call threw
ErrorKind(message) ==
  CASE message \in {"Bid not found", "Order not found", "Stream not found"} -> "NotFound"
    [] message \in {"Only the seller can accept bids", "Only the seller can reject bids",
                    "You can only cancel your own bids", "Please connect your wallet first",
                    "Wallet not connected"} -> "Unauthorized"
    [] message \in {"Only pending bids can be accepted", "Only pending bids can be rejected",
                    "Only pending bids can be cancelled"} -> "InvalidState"
    [] message \in {"Insufficient vUSDC balance"} -> "InsufficientFunds"
    [] message \in {"Invalid purchase price"} -> "ValidationError"
    [] message \in {"Transaction failed"} -> "LedgerUnavailable"
    [] OTHER -> "none"

TerminalStatus == {"accepted", "rejected", "cancelled"}

\* the seller an order was listed by, also after the order has left the book
listedSeller(orderId) ==
  IF HasId(orderBook, orderId) THEN Find(orderBook, orderId).seller
  ELSE IF variant = "contract" THEN Find(chainOrders, orderId).seller
  ELSE LET i == CHOOSE j \in 1..Len(orderHistory) : orderHistory[j].order.id = orderId
       IN orderHistory[i].order.seller

\* the balance a party can spend: the connected user's displayed balance, the
\* ledger's balance for everyone else
availableBalance(party, u, ledger) ==
  IF u.address = party THEN u.balanceVUSDC ELSE ledger[party]

Accepted == last.op = "acceptBid" /\ last.result = "ok"

\* ------------------------------------------------------------------ C1
\* C1: after a successful accept the bid is accepted, its order is off the
\* order book, the stream's receiver is the bidder, exactly one trade carries
\* the bid (seller, buyer = bidder, price = bid.amount, bidId) and exactly one
\* order-history entry marks the order sold.
C1_AcceptSettlesTogether ==
  Accepted =>
    LET bid == Find(bids, last.arg)
        trades == {i \in 1..Len(tradeHistory) :
                     tradeHistory[i].viaBid /\ tradeHistory[i].bidId = bid.id}
        sold == {i \in 1..Len(orderHistory) :
                   orderHistory[i].status = "sold" /\ orderHistory[i].order.id = bid.orderId}
    IN /\ bid.status = "accepted"
       /\ ~HasId(orderBook, bid.orderId)
       /\ Cardinality(trades) = 1
       /\ \A i \in trades :
            /\ toLowerCase(tradeHistory[i].seller) = toLowerCase(last.caller)
            /\ tradeHistory[i].buyer = bid.bidder
            /\ tradeHistory[i].price = bid.amount
            /\ tradeHistory[i].orderId = bid.orderId
            /\ HasId(activeStreams, tradeHistory[i].streamId)
            /\ Find(activeStreams, tradeHistory[i].streamId).receiver = bid.bidder
       /\ Cardinality(sold) = 1

\* ------------------------------------------------------------------ C2
\* C2: a bid whose status is accepted, rejected or cancelled keeps that status
\* through every later step.
C2_TerminalStatusIsFinal ==
  [][\A i \in 1..Len(bids) :
       bids[i].status \in TerminalStatus =>
         /\ Len(bids') >= i
         /\ bids'[i].id = bids[i].id
         /\ bids'[i].status = bids[i].status]_vars

\* a call on a bid in a terminal status was made and refused
C2_Witness ==
  /\ last.op \in {"acceptBid", "rejectBid", "cancelBid"}
  /\ ErrorKind(last.result) = "InvalidState"
  /\ Find(bids, last.arg).status \in TerminalStatus

C4_RepeatIsInvalidState ==
  [][LET call == last' IN
     (/\ call.op \in {"acceptBid", "rejectBid", "cancelBid"}
      /\ HasId(bids, call.arg)
      /\ Find(bids, call.arg).status =
           (CASE call.op = "acceptBid" -> "accepted"
              [] call.op = "rejectBid" -> "rejected"
              [] OTHER -> "cancelled"))
     => ErrorKind(call.result) = "InvalidState"]_vars

\* ------------------------------------------------------------------ C5
\* C5: a successful accept lowers the bidder's available balance by bid.amount
\* and leaves every other party's available balance as it was.
C5_AcceptDebitsTheBidder ==
  [][(last'.op = "acceptBid" /\ last'.result = "ok") =>
       LET bid == Find(bids, last'.arg) IN
       \A party \in Addrs :
         availableBalance(party, user', chainBalance') =
           availableBalance(party, user, chainBalance)
             - (IF party = bid.bidder THEN bid.amount ELSE 0)]_vars

\* ------------------------------------------------------------------ C6
Scanned == last.op = "scanOrderBook"

\* the five policy predicates on the state a scan saw (a scan changes neither
\* the order book, the streams, the user nor the policy)
policyHolds(order) ==
  /\ HasId(activeStreams, order.streamId)
  /\ order.riskScore <= prefs.maxRisk
  /\ 100 - order.priceRatio >= prefs.minDiscount
  /\ Find(activeStreams, order.streamId).duration <= prefs.maxDuration * SecondsPerDay
  /\ user.balanceVUSDC >= order.impliedValue
  /\ toLowerCase(order.seller) # lowerOpt(user.address)

\* C6: every order a scan dispatched a purchase for has its stream in the
\* stream set and passes riskScore <= maxRisk, discount >= minDiscount,
\* duration <= maxDuration, balance >= impliedValue and seller # caller.
C6_DispatchOnlyIfPolicyHolds ==
  Scanned =>
    \A k \in 1..Len(last.dispatched) :
      /\ HasId(orderBook, last.dispatched[k])
      /\ policyHolds(Find(orderBook, last.dispatched[k]))

\* a scan dispatched a purchase
C6_Witness == Scanned /\ Len(last.dispatched) > 0

\* ------------------------------------------------------------------ C7
\* C7: a scan evaluates every order of the book whatever one evaluation
\* raises, the exception goes no further, and the agent stays armed.
C7_ScanSurvivesExceptions ==
  Scanned =>
    /\ Len(last.scanned) = Len(orderBook)
    /\ mounted
    /\ isActive

\* ------------------------------------------------------------------ C8
\* C8: while the agent is stopped no scan runs: the scan counter stays, no
\* execution is recorded and no purchase is dispatched.
C8_NoScanAfterStop ==
  [][~isActive /\ ~isActive' =>
       /\ stats' = stats
       /\ executionHistory' = executionHistory
       /\ Len(inflight') <= Len(inflight)
       /\ last'.op # "scanOrderBook"]_vars

\* the agent was started, has scanned, and is stopped with its timer cleared
C8_Witness == ~isActive /\ ~intervalRef /\ stats.totalScans > 0 /\ mounted

\* ------------------------------------------------------------------ C9
\* C9: a scan of an armed agent dispatches exactly one purchase for every
\* listed order that passes the policy.
C9_OnePurchasePerMatchingOrder ==
  Scanned =>
    \A i \in 1..Len(orderBook) :
      policyHolds(orderBook[i]) =>
        Cardinality({k \in 1..Len(last.dispatched) : last.dispatched[k] = orderBook[i].id}) = 1

\* ------------------------------------------------------------------ C10
\* C10: an order yields at most one trade, whatever purchases overlap.
C10_AtMostOneWinner ==
  \A i, j \in 1..Len(tradeHistory) :
    tradeHistory[i].orderId = tradeHistory[j].orderId => i = j

\* ------------------------------------------------------------------ C11
\* C11: a stream that stays in the stream set never has its flowedAmount
\* lowered by a step (a tick or a refetch), and its flowedAmount lies between 0
\* and totalDeposit.
C11_FlowedNeverDecreases ==
  [][\A i \in 1..Len(activeStreams), j \in 1..Len(activeStreams') :
       activeStreams[i].id = activeStreams'[j].id =>
         /\ activeStreams'[j].flowedAmount >= activeStreams[i].flowedAmount
         /\ activeStreams'[j].flowedAmount >= 0
         /\ activeStreams'[j].flowedAmount <= activeStreams'[j].totalDeposit]_vars

\* ------------------------------------------------------------------ C12
\* C12: for a stream with duration <= 0 the 1 Hz update stores flowedAmount 0
\* and remainingBalance = totalDeposit, and the live price of its row reports
\* remainingBalance = totalDeposit, at every instant.
C12_NoDurationNoFlow ==
  /\ \A i \in 1..Len(activeStreams) :
       activeStreams[i].duration <= 0 =>
         /\ activeStreams[i].flowedAmount = 0
         /\ activeStreams[i].remainingBalance = activeStreams[i].totalDeposit
  /\ last.op = "useLiveStreamPrice" =>
       (Find(activeStreams, last.arg).duration <= 0 =>
          last.live.remaining = Find(activeStreams, last.arg).totalDeposit * last.live.den)

\* ------------------------------------------------------------------ C13
Abs(x) == IF x >= 0 THEN x ELSE -x

\* C13: after a recompute every order whose stream is in the stream set has
\* impliedValue = remainingBalance * percentage / 100 * priceRatio, rounded to
\* the sixth decimal, and every order whose stream is missing has impliedValue 0.
C13_ImpliedValueAfterRecompute ==
  [][activeStreams' # activeStreams =>
       \A i \in 1..Len(orderBook') :
         LET order == orderBook'[i] IN
         IF HasId(activeStreams', order.streamId)
         THEN 2 * Abs(100 * 100 * order.impliedValue
                        - Find(activeStreams', order.streamId).remainingBalance
                            * order.percentage * order.priceRatio) <= 100 * 100
         ELSE order.impliedValue = 0]_vars

\* after a tick the book holds an order priced from its stream and, after a
\* refetch for another account, an order whose stream is missing
C13_Witness ==
  /\ now > 10
  /\ \E i \in 1..Len(orderBook) :
       /\ HasId(activeStreams, orderBook[i].streamId)
       /\ orderBook[i].impliedValue > 0
       /\ orderBook[i].priceRatio = 80

\* ------------------------------------------------------------------ C14
\* the id of the order the last listing created
justListed ==
  IF variant = "local" THEN orderBook[Len(orderBook)].id ELSE chainOrders[Len(chainOrders)].id

\* C14: a listing leaves the streams as they were, and a cancel that follows it
\* at once leaves the streams as they were, the order off the order book and an
\* order-history entry for the order with status cancelled.
C14_ListThenCancel ==
  [][/\ (last'.op = "listStreamForSale" /\ last'.result = "ok") => activeStreams' = activeStreams
     /\ (/\ last.op = "listStreamForSale" /\ last.result = "ok"
         /\ last'.op = "cancelOrder" /\ last'.result = "ok"
         /\ last'.arg = justListed) =>
          /\ activeStreams' = activeStreams
          /\ ~HasId(orderBook', last'.arg)
          /\ \E k \in 1..Len(orderHistory') :
               /\ orderHistory'[k].status = "cancelled"
               /\ orderHistory'[k].order.id = last'.arg]_vars

\* ------------------------------------------------------------------ C15
\* C15: a successful reject sets the status of the bid it names to rejected
\* and changes nothing else: no other bid, and neither the order book, the
\* streams, the balances, the trade history nor the order history.
C15_RejectChangesOnlyTheBid ==
  [][(last'.op = "rejectBid" /\ last'.result = "ok") =>
       /\ Len(bids') = Len(bids)
       /\ \A i \in 1..Len(bids) :
            bids'[i] = IF bids[i].id = last'.arg
                       THEN [bids[i] EXCEPT !.status = "rejected"] ELSE bids[i]
       /\ orderBook' = orderBook
       /\ activeStreams' = activeStreams
       /\ user' = user
       /\ chainBalance' = chainBalance
       /\ tradeHistory' = tradeHistory
       /\ orderHistory' = orderHistory]_vars

\* a bid was rejected while another bid on the same order was pending
C15_Witness ==
  /\ last.op = "rejectBid" /\ last.result = "ok"
  /\ Find(bids, last.arg).status = "rejected"
  /\ \E i \in 1..Len(bids) :
       /\ bids[i].id # last.arg
       /\ bids[i].orderId = Find(bids, last.arg).orderId
       /\ bids[i].status = "pending"

\* ------------------------------------------------------------------ C16
\* C16: a successful accept sets the status of the bid it names to accepted
\* and leaves every other bid, the bids on the same order included, as it was.
C16_AcceptKeepsSiblings ==
  [][(last'.op = "acceptBid" /\ last'.result = "ok") =>
       /\ Len(bids') = Len(bids)
       /\ \A i \in 1..Len(bids) :
            IF bids[i].id = last'.arg
            THEN bids'[i].status = "accepted"
            ELSE bids'[i] = bids[i]]_vars

\* a bid was accepted and a bid on the same order is still pending
C16_Witness ==
  /\ Accepted
  /\ \E i \in 1..Len(bids) :
       /\ bids[i].id # last.arg
       /\ bids[i].orderId = Find(bids, last.arg).orderId
       /\ bids[i].status = "pending"

\* ------------------------------------------------------------------ C17
\* C17: place on an order id that is not in the order book fails with
\* "Order not found" and adds no bid; place by a connected caller on a listed
\* order, the caller's own order included, appends exactly one bid, pending,
\* on that order and in the caller's name.
C17_PlaceNeedsListedOrder ==
  [][last'.op = "placeBid" =>
       IF ~HasId(orderBook, last'.arg)
       THEN /\ last'.result = "Order not found"
            /\ ErrorKind(last'.result) = "NotFound"
            /\ bids' = bids
       ELSE last'.caller # NoAddr =>
            /\ last'.result = "ok"
            /\ Len(bids') = Len(bids) + 1
            /\ SubSeq(bids', 1, Len(bids)) = bids
            /\ bids'[Len(bids')].status = "pending"
            /\ bids'[Len(bids')].orderId = last'.arg
            /\ bids'[Len(bids')].bidder = last'.caller]_vars

\* the seller of a listed order placed a bid on it
C17_Witness ==
  /\ last.op = "placeBid" /\ last.result = "ok"
  /\ HasId(orderBook, last.arg)
  /\ isSeller(Find(orderBook, last.arg), last.caller)
  /\ bids[Len(bids)].bidder = last.caller
  /\ bids[Len(bids)].status = "pending"

\* ------------------------------------------------------------------ C18
RiskScored == last.op = "calculateStreamRisk" /\ last.result = "ok"

\* C18: every assessment returned has a whole score from 0 to 100, grade A iff
\* score <= 20, B iff 20 < score <= 40, C iff 40 < score <= 70, D iff
\* score > 70, and recommended discount 2, 5, 10, 20 percent for A, B, C, D.
C18_ScoreAndGrade ==
  RiskScored =>
    LET r == last.assessment IN
    /\ r.score \in 0..100
    /\ (r.riskLevel = "A") <=> (r.score <= 20)
    /\ (r.riskLevel = "B") <=> (20 < r.score /\ r.score <= 40)
    /\ (r.riskLevel = "C") <=> (40 < r.score /\ r.score <= 70)
    /\ (r.riskLevel = "D") <=> (r.score > 70)
    /\ r.recommendedDiscount =
         (CASE r.riskLevel = "A" -> 2 [] r.riskLevel = "B" -> 5
            [] r.riskLevel = "C" -> 10 [] OTHER -> 20)

\* a stream with all its fields was scored at the upper bound of a grade
C18_Witness ==
  /\ RiskScored
  /\ last.stream.startTime # 0 /\ last.stream.duration # 0 /\ last.stream.totalDeposit # 0
  /\ last.assessment.score = 70

\* ------------------------------------------------------------------ C19
\* C19 as stated: a call with two or more failed transactions returns a
\* strictly higher score than the call on the same stream with none.
C19_FailuresScoreWorse ==
  (RiskScored /\ last.arg >= 2) =>
    last.assessment.score > calculateStreamRiskIn(1, last.stream, 0, now).score

\* C19 amended: on a stream whose startTime and duration are present and whose
\* totalDeposit is positive, a call with two or more failed transactions
\* returns a strictly higher score than the call on the same stream with none.
C19_FailuresScoreWorseOnValidStream ==
  (/\ RiskScored /\ last.arg >= 2
   /\ last.stream.startTime # 0 /\ last.stream.duration # 0 /\ last.stream.totalDeposit > 0) =>
    last.assessment.score > calculateStreamRiskIn(1, last.stream, 0, now).score

\* such a stream was scored with two or more failures
C19_Witness ==
  /\ RiskScored /\ last.arg >= 2
  /\ last.stream.startTime # 0 /\ last.stream.duration # 0 /\ last.stream.totalDeposit > 0
  /\ last.assessment.score < 100

\* ------------------------------------------------------------------ C20
\* C20: no call to the risk scoring throws, and a call on a stream whose
\* startTime, duration or totalDeposit is missing returns score 100, level D,
\* recommended discount 20 percent.
C20_NeverThrowsAndSentinel ==
  last.op = "calculateStreamRisk" =>
    /\ last.result = "ok"
    /\ (last.stream.startTime = 0 \/ last.stream.duration = 0 \/ last.stream.totalDeposit = 0) =>
         /\ last.assessment.score = 100
         /\ last.assessment.riskLevel = "D"
         /\ last.assessment.recommendedDiscount = 20

\* ------------------------------------------------------------------ C21
\* C21: a successful requestTokens call moves exactly FAUCET_AMOUNT from the
\* faucet to the caller, and it comes at least COOLDOWN_PERIOD after the
\* caller's previous successful call unless resetCooldown came in between.
Granted == last.op = "requestTokens" /\ last.result = "ok"

C21_CooldownAndAmount ==
  [][(last'.op = "requestTokens" /\ last'.result = "ok" /\ faucet' # faucet) =>
       LET a == last'.caller IN
         /\ faucet'.balanceOf[a] = faucet.balanceOf[a] + FAUCET_AMOUNT
         /\ faucet'.balanceOf[FaucetAddr] = faucet.balanceOf[FaucetAddr] - FAUCET_AMOUNT
         /\ \A h \in Holders \ {a, FaucetAddr} : faucet'.balanceOf[h] = faucet.balanceOf[h]
         /\ (faucet.granted[a] >= 0 => faucet'.timestamp - faucet.granted[a] >= COOLDOWN_PERIOD)]_vars

\* a second grant to the same address, exactly COOLDOWN_PERIOD after the first
C21_Witness ==
  /\ Granted
  /\ last.prior >= 0
  /\ faucet.timestamp - last.prior = COOLDOWN_PERIOD
  /\ faucet.balanceOf[last.caller] >= 2 * FAUCET_AMOUNT

\* ------------------------------------------------------------------ C22
\* C22: no order ever has two purchase calls of the agent in flight at once.
C22_OneAgentCallPerOrder ==
  \A i, j \in 1..Len(inflight) :
    (inflight[i].by = "agent" /\ inflight[j].by = "agent" /\
     inflight[i].orderId = inflight[j].orderId) => i = j

\* ------------------------------------------------------------------ C23
\* C23: a scan evaluates every order of the book, and purchases each order
\* that passes all policy predicates, whatever the orders before it did.
C23_EveryOrderEvaluated ==
  Scanned =>
    \A i \in 1..Len(orderBook) :
      /\ \E k \in 1..Len(last.scanned) : last.scanned[k] = orderBook[i].id
      /\ policyHolds(orderBook[i]) =>
           \E k \in 1..Len(last.dispatched) : last.dispatched[k] = orderBook[i].id

\* ------------------------------------------------------------------ C24
\* C24: a scan runs only when the agent has just been armed or when a whole
\* scan interval has elapsed since the scan before it.
C24_ScansAtArmingAndIntervals ==
  [][(last'.op = "scanOrderBook" /\ stats'.totalScans = stats.totalScans + 1) =>
       (last.op = "start" \/ now' = stats.lastScanTime + ScanInterval)]_vars

C26_HistoryIsNewestFifty ==
  /\ Len(executionHistory) <= HistoryLimit
  /\ Len(executionHistory) = Min(stats.totalExecutions, HistoryLimit)
  /\ \A i \in 1..Len(executionHistory) :
       executionHistory[i].executedAt = stats.totalExecutions - i + 1

\* more than HistoryLimit executions were recorded and the oldest ones are gone
C26_Witness ==
  /\ last.op = "executeTrade"
  /\ stats.totalExecutions > HistoryLimit
  /\ Len(executionHistory) = HistoryLimit
  /\ executionHistory[HistoryLimit].executedAt > 1

\* ------------------------------------------------------------------ C27
\* C27: the order a listing creates carries the score and the grade that
\* calculateStreamRisk returns for its stream at that instant (for a seller
\* without failed transactions), and no step changes the riskScore or the
\* riskLevel of an order that stays in the order book.
C27_RiskFixedAtListing ==
  [][/\ (last'.op = "listStreamForSale" /\ last'.result = "ok") =>
          /\ HasId(orderBook', freshOrderId)
          /\ LET order == Find(orderBook', freshOrderId)
                 riskAssessment == calculateStreamRisk(Find(activeStreams, last'.arg), 0, now)
             IN /\ order.riskScore = riskAssessment.score
                /\ order.riskLevel = riskAssessment.riskLevel
     /\ \A i \in 1..Len(orderBook) :
          HasId(orderBook', orderBook[i].id) =>
            /\ Find(orderBook', orderBook[i].id).riskScore = orderBook[i].riskScore
            /\ Find(orderBook', orderBook[i].id).riskLevel = orderBook[i].riskLevel]_vars

\* ------------------------------------------------------------------ C28
\* C28: every stream of the stream set has remainingBalance >= 0 and
\* remainingBalance = totalDeposit - flowedAmount, up to the one unit that
\* rounding each of the two amounts to six decimals can add.
C28_RemainingIsDepositLessFlowed ==
  \A i \in 1..Len(activeStreams) :
    /\ activeStreams[i].remainingBalance >= 0
    /\ Abs(activeStreams[i].remainingBalance
           - (activeStreams[i].totalDeposit - activeStreams[i].flowedAmount)) <= 1

\* ------------------------------------------------------------------ C29
\* C29: every order of the active listing, under any risk filter, has its
\* stream in the stream set with remainingBalance > 0.
C29_ListingHidesDeadOrders ==
  \A riskFilter \in RiskFilters :
    \A k \in 1..Len(activeOrders(riskFilter)) :
      LET order == activeOrders(riskFilter)[k] IN
        /\ HasId(activeStreams, order.streamId)
        /\ Find(activeStreams, order.streamId).remainingBalance > 0

\* the order book holds an order whose stream has run out, and the listing is empty
C29_Witness ==
  /\ orderBook # << >>
  /\ \E i \in 1..Len(orderBook) :
       /\ HasId(activeStreams, orderBook[i].streamId)
       /\ Find(activeStreams, orderBook[i].streamId).remainingBalance = 0
  /\ activeOrders("all") = << >>

\* the order book holds an order whose stream is not in the stream set
C29_StreamMissing ==
  /\ orderBook # << >>
  /\ \E i \in 1..Len(orderBook) : ~HasId(activeStreams, orderBook[i].streamId)
  /\ activeOrders("all") = << >>

\* ------------------------------------------------------------------ C30
\* C30: a step leaves the trade history as it is or adds one record at its
\* end; the records it held stay where and as they were.
C30_TradeHistoryOnlyGrows ==
  [][\/ tradeHistory' = tradeHistory
     \/ /\ Len(tradeHistory') = Len(tradeHistory) + 1
        /\ SubSeq(tradeHistory', 1, Len(tradeHistory)) = tradeHistory]_vars

\* a purchase has just been recorded after an earlier one
C30_Witness ==
  /\ last.op = "buyStream"
  /\ last.result = "ok"
  /\ Len(tradeHistory) >= 2
  /\ tradeHistory[Len(tradeHistory)].id > tradeHistory[1].id

\* ------------------------------------------------------------------ C31
\* C31: no order has two bids with status accepted.
C31_OneAcceptedBidPerOrder ==
  \A i, j \in 1..Len(bids) :
    (bids[i].status = "accepted" /\ bids[j].status = "accepted" /\
     bids[i].orderId = bids[j].orderId) => i = j

\* ------------------------------------------------------------------ C32
\* C32: an order that a trade, a sold or cancelled history entry, or the
\* ledger records as closed is not in the order book.
C32_RemovedStaysRemoved ==
  /\ \A k \in 1..Len(tradeHistory) : ~HasId(orderBook, tradeHistory[k].orderId)
  /\ \A k \in 1..Len(orderHistory) :
       orderHistory[k].status \in {"sold", "cancelled"} => ~HasId(orderBook, orderHistory[k].order.id)
  /\ \A k \in 1..Len(chainOrders) :
       ~chainOrders[k].isActive => ~HasId(orderBook, chainOrders[k].id)

\* ------------------------------------------------------------------ C33
\* C33: only an accepted bid or a settled purchase changes the receiver of a
\* stream that stays in the stream set; a tick or a refetch leaves it.
C33_ReceiverStaysWithBuyer ==
  [][\A i \in 1..Len(activeStreams) :
       (/\ HasId(activeStreams', activeStreams[i].id)
        /\ Find(activeStreams', activeStreams[i].id).receiver # activeStreams[i].receiver) =>
         (last'.op \in {"acceptBid", "buyStream"} /\ last'.result = "ok")]_vars

\* ------------------------------------------------------------------ C34
\* C34: the balance of the user is never negative.
C34_BalanceNeverNegative == user.balanceVUSDC >= 0

\* ------------------------------------------------------------------ C35
\* C35: the order history holds at most one sold or cancelled entry for an
\* order id.
C35_OneTerminalOutcome ==
  \A i, j \in 1..Len(orderHistory) :
    (/\ orderHistory[i].status \in {"sold", "cancelled"}
     /\ orderHistory[j].status \in {"sold", "cancelled"}
     /\ orderHistory[i].order.id = orderHistory[j].order.id) => i = j

\* ------------------------------------------------------------------ C36
\* purchases that have completed successfully: part_010 records each as a
\* trade, in VoltContext.jsx each closes its order on the ledger
completedPurchases ==
  IF variant = "local"
  THEN Cardinality({k \in 1..Len(tradeHistory) : ~tradeHistory[k].viaBid})
  ELSE Cardinality({k \in 1..Len(chainOrders) : ~chainOrders[k].isActive})

\* C36: the executions the agent has recorded and counted are no more than
\* the purchases that completed successfully.
C36_ExecutionsAreCompletedPurchases ==
  /\ stats.totalExecutions <= completedPurchases
  /\ Len(executionHistory) <= completedPurchases

\* ------------------------------------------------------------------ C37
\* C37: every order a scan dispatched a purchase for has an implied value
\* above 0 and a stream with remainingBalance above 0.
C37_NoPurchaseOfWorthlessOrder ==
  Scanned =>
    \A k \in 1..Len(last.dispatched) :
      LET order == Find(orderBook, last.dispatched[k]) IN
        /\ order.impliedValue > 0
        /\ Find(activeStreams, order.streamId).remainingBalance > 0

\* ------------------------------------------------------------------ C38
\* C38: a cancelOrder call by anyone but the seller of the order it names
\* leaves the order book and the order history as they were.
C38_OnlySellerCancels ==
  [][(/\ last'.op = "cancelOrder"
      /\ ~(/\ HasId(orderBook, last'.arg)
           /\ toLowerCase(Find(orderBook, last'.arg).seller) = lowerOpt(user.address))) =>
       (orderBook' = orderBook /\ orderHistory' = orderHistory)]_vars

\* ------------------------------------------------------------------ C39
BidOps == {"placeBid", "cancelBid", "acceptBid", "rejectBid"}

\* C39: a placeBid, cancelBid, acceptBid or rejectBid call that ends with an
\* error leaves the bids, the order book, the stream set, the balances, the
\* trade history and the order history as they were.
C39_FailedBidCallChangesNothing ==
  [][(last'.op \in BidOps /\ last'.result # "ok") =>
       /\ bids' = bids
       /\ orderBook' = orderBook
       /\ activeStreams' = activeStreams
       /\ user' = user
       /\ chainBalance' = chainBalance
       /\ tradeHistory' = tradeHistory
       /\ orderHistory' = orderHistory]_vars

\* an accept by someone who is not the seller has just been refused, with a
\* pending bid and its order in place
C39_Witness ==
  /\ last.op = "acceptBid"
  /\ last.result = "Only the seller can accept bids"
  /\ HasId(bids, last.arg)
  /\ Find(bids, last.arg).status = "pending"
  /\ HasId(orderBook, Find(bids, last.arg).orderId)


\* ------------------------------------------------------------------ C40
\* the fields of a bid that are set at placement
placementFields(bid) ==
  [id |-> bid.id, orderId |-> bid.orderId, bidder |-> bid.bidder, amount |-> bid.amount,
   discount |-> bid.discount, priceRatio |-> bid.priceRatio]

\* C40: cancel, accept and reject change only the status field of the
\* targeted bid; no step deletes a bid; the id, orderId, bidder, amount,
\* discount and priceRatio of every bid stay as set at placement, and
\* priceRatio = 1 - discount/100 (in percent: 100 - discount).
C40_OnlyStatusOfTargetChanges ==
  [][ /\ Len(bids') >= Len(bids)
      /\ \A i \in 1..Len(bids) : placementFields(bids'[i]) = placementFields(bids[i])
      /\ \A i \in 1..Len(bids') : bids'[i].priceRatio = 100 - bids'[i].discount
      /\ (last'.op \in {"cancelBid", "acceptBid", "rejectBid"} /\ last' # last) =>
           /\ Len(bids') = Len(bids)
           /\ \A i \in 1..Len(bids) :
                \/ bids'[i] = bids[i]
                \/ /\ bids[i].id = last'.arg
                   /\ bids'[i] = [bids[i] EXCEPT !.status = bids'[i].status]
    ]_vars

\* a bid was cancelled while another bid, still pending, stands beside it
C40_Witness ==
  /\ last.op = "cancelBid" /\ last.result = "ok"
  /\ Find(bids, last.arg).status = "cancelled"
  /\ Find(bids, last.arg).priceRatio = 100 - Find(bids, last.arg).discount
  /\ \E i \in 1..Len(bids) : bids[i].id # last.arg /\ bids[i].status = "pending"

====
